---- MODULE Spec2Model ----
(***************************************************************************)
(* Royal Mail tracking app (albal/rmtrack): the Workers API                *)
(* (functions/api/[[path]].js) over its two D1 tables, and the browser     *)
(* client (public/app.js) that polls it.                                   *)
(*                                                                         *)
(* Every `await` of a handler is a point where another request may run, so *)
(* a handler is modelled as one action per awaited statement.  Timestamps  *)
(* are clock ticks (the ISO strings the code stores are fixed-width, so    *)
(* their text order is the order of the instants they denote).             *)
(***************************************************************************)
EXTENDS Integers, Sequences, FiniteSets, TLC

----------------------------------------------------------------------------
(* Bounds of the model *)

\* clock ticks per minute of the mock provider's buckets
TicksPerMinute == 2
\* the clock runs from 0 to MaxClock
MaxClock == 8
\* store statements that may fail in one behaviour
MaxFailures == 1

\* requests the Worker may be handling at once
MaxInFlight == 2
\* requests made in one behaviour by callers that overlap (the page's: the form
\* submitted, the interval fired, the stop button clicked)
MaxRequests == 3
\* the provider is asked at elapsed times from 0 to MaxElapsedMinutes minutes
MaxElapsedMinutes == 6

----------------------------------------------------------------------------
(* Identifiers: strings as sequences of characters *)

LetterCount == 2
DigitCount == 9

UpperLetters == {"A", "B", "G"}
Digits == {"0", "1", "2", "3", "4", "5", "6", "7", "8", "9"}

\* white space String.prototype.trim removes, as far as inputs here hold it
WhiteSpace == {" ", "\t", "\n"}

IsSpace(c) == c \in WhiteSpace

\* String.prototype.toUpperCase, character by character
UpperChar(c) ==
    CASE c = "a" -> "A"
      [] c = "b" -> "B"
      [] c = "g" -> "G"
      [] OTHER -> c

ToUpperCase(s) == [i \in 1..Len(s) |-> UpperChar(s[i])]

RECURSIVE TrimStart(_)
TrimStart(s) ==
    IF s # <<>> /\ IsSpace(Head(s)) THEN TrimStart(Tail(s)) ELSE s

RECURSIVE TrimEnd(_)
TrimEnd(s) ==
    IF s # <<>> /\ IsSpace(s[Len(s)]) THEN TrimEnd(SubSeq(s, 1, Len(s) - 1)) ELSE s

\* String.prototype.trim
Trim(s) == TrimEnd(TrimStart(s))

\* cleanId = trackingId.trim().toUpperCase()
CleanId(raw) == ToUpperCase(Trim(raw))

\* the pattern without its end anchor: what ValidateIsExact must reject
RoyalMailPatternUnanchored(s) ==
    /\ Len(s) >= LetterCount + DigitCount + LetterCount
    /\ \A i \in 1..(LetterCount + DigitCount + LetterCount) :
          IF i <= LetterCount \/ i > LetterCount + DigitCount
          THEN s[i] \in UpperLetters
          ELSE s[i] \in Digits

\* /^[A-Z]{2}\d{9}[A-Z]{2}$/.test(s)
RoyalMailPattern(s) ==
    /\ Len(s) = LetterCount + DigitCount + LetterCount
    /\ \A i \in 1..Len(s) :
          IF i <= LetterCount \/ i > LetterCount + DigitCount
          THEN s[i] \in UpperLetters
          ELSE s[i] \in Digits

validateTrackingId(trackingId) == RoyalMailPattern(CleanId(trackingId))

\* the page's validateTrackingId (app.js), and handleAddTracking's use of it on
\* the value of the form's input, which it trims and upper-cases first
pageValidateTrackingId(trackingId) == RoyalMailPattern(CleanId(trackingId))

FormValidates(value) == pageValidateTrackingId(CleanId(value))

\* the identifiers requests are made with
GoodRaw == <<"A", "B", "1", "2", "3", "4", "5", "6", "7", "8", "9", "G", "B">>
VariantRaw == <<" ", "a", "b", "1", "2", "3", "4", "5", "6", "7", "8", "9", "g", "b", " ">>
ShortRaw == <<"A", "B", "1", "2", "3", "4", "5", "6", "7", "8", "9", "G">>

RawIds == {GoodRaw, VariantRaw, ShortRaw}

----------------------------------------------------------------------------
(* The mock status provider *)

NoStatus == "NULL"

StatusOf(status, delivered) == [status |-> status, delivered |-> delivered]

\* the provider with its buckets closed on the right (<= for <): what
\* ProviderIsStepFunction must reject
fetchRoyalMailStatusInclusive(e) ==
    IF e <= 1 * TicksPerMinute
    THEN StatusOf("Item received by Royal Mail", FALSE)
    ELSE IF e <= 2 * TicksPerMinute
    THEN StatusOf("In transit to delivery depot", FALSE)
    ELSE IF e <= 3 * TicksPerMinute
    THEN StatusOf("At local delivery office", FALSE)
    ELSE IF e <= 4 * TicksPerMinute
    THEN StatusOf("Out for delivery", FALSE)
    ELSE StatusOf("Delivered and signed for", TRUE)

\* fetchRoyalMailStatus: the argument is Date.now() - startedAt, in ticks
fetchRoyalMailStatus(e) ==
    IF e < 1 * TicksPerMinute
    THEN StatusOf("Item received by Royal Mail", FALSE)
    ELSE IF e < 2 * TicksPerMinute
    THEN StatusOf("In transit to delivery depot", FALSE)
    ELSE IF e < 3 * TicksPerMinute
    THEN StatusOf("At local delivery office", FALSE)
    ELSE IF e < 4 * TicksPerMinute
    THEN StatusOf("Out for delivery", FALSE)
    ELSE StatusOf("Delivered and signed for", TRUE)

----------------------------------------------------------------------------
(* State *)

VARIABLES
    clock,              \* Date.now(), in ticks: the instant of the last reading
    tracking,           \* table tracking: a set of rows, tracking_id UNIQUE
    tracking_history,   \* table tracking_history, in insertion (rowid) order
    reqs,               \* the requests the Worker is handling, by slot
    failures,           \* store statements that have failed so far
    requested,          \* requests made so far by overlapping callers
    trackingData,       \* the page's this.trackingData: <<>> (null) or <<data>>
    checkInterval,      \* the page's this.checkInterval: NoTimer (null) or a timer
    timers,             \* the intervals set and not cleared
    session,            \* localStorage rmtrack_session: <<>> or <<trackingId>>
    permission,         \* Notification.permission
    notifications,      \* the notifications shown, in order
    view,               \* which of the form and the status panel is displayed
    input,              \* the text handed to the validators
    valid,              \* what they returned for it: <<>> before they ran
    elapsed,            \* two elapsed times the provider is asked at, in ticks
    answers             \* what it answered at them: <<>> before it was asked

apiVars == <<clock, tracking, tracking_history, reqs, failures, requested>>
formVars == <<input, valid, elapsed, answers>>
pageVars == <<trackingData, checkInterval, timers, session, permission,
              notifications, view, formVars>>
vars == <<apiVars, pageVars>>

NoTime == 0 - 1
NoTimer == 0
Undefined == "undefined"

Slots == 1..MaxInFlight

\* a row of table tracking (CREATE TABLE tracking)
TrackingRow(id, ne, started_at, checked, status, delivered, updated) ==
    [tracking_id |-> id, notifications_enabled |-> ne, started_at |-> started_at,
     last_checked |-> checked, last_status |-> status, delivered |-> delivered,
     updated_at |-> updated]

NoRow == TrackingRow(<<>>, FALSE, NoTime, NoTime, NoStatus, FALSE, NoTime)

\* a row of table tracking_history (CREATE TABLE tracking_history)
HistoryRow(id, status, timestamp) ==
    [tracking_id |-> id, status |-> status, timestamp |-> timestamp]

\* the JSON body of a response; a field the handler does not send is Undefined / FALSE
NoBody ==
    [trackingId |-> <<>>, status |-> Undefined, delivered |-> FALSE,
     statusChanged |-> FALSE, notificationsEnabled |-> FALSE,
     startedAt |-> NoTime, lastChecked |-> NoTime, lastStatus |-> NoStatus,
     history |-> <<>>]

\* SELECT * FROM tracking WHERE tracking_id = ?  (.first())
Exists(id) == \E r \in tracking : r.tracking_id = id
RowOf(id) == IF Exists(id) THEN CHOOSE r \in tracking : r.tracking_id = id ELSE NoRow

\* the history rows of one identifier, in insertion order
HistoryOf(id) == SelectSeq(tracking_history, LAMBDA h : h.tracking_id = id)

\* what the store holds for an identifier when a request for it arrives (kept with
\* the request so that its outcome can be compared with it)
Stored(id) == [exists |-> Exists(id), row |-> RowOf(id), history |-> HistoryOf(id)]

NoStored == [exists |-> FALSE, row |-> NoRow, history |-> <<>>]

\* who sent a request: "seq" (one caller that waits for each response), "ext"
\* (callers that overlap) or "page" with the page's continuation and what it keeps
Caller(who) == [who |-> who, cont |-> "none", data |-> NoBody]
Page(cont, data) == [who |-> "page", cont |-> cont, data |-> data]

IdleReq ==
    [op |-> "none", owner |-> Caller("none"), ne |-> FALSE, id |-> <<>>,
     pc |-> "idle", now |-> NoTime, row |-> NoRow, st |-> StatusOf(Undefined, FALSE),
     changed |-> FALSE, code |-> 0, body |-> NoBody, pre |-> NoStored]

StatusAndTime(h) == [status |-> h.status, timestamp |-> h.timestamp]

Project(rows) == [i \in 1..Len(rows) |-> StatusAndTime(rows[i])]

\* the orders of the rows at the indexes left that are descending by timestamp
RECURSIVE DescOrders(_, _)
DescOrders(rows, left) ==
    IF left = {} THEN {<<>>}
    ELSE UNION {{<<rows[i]>> \o rest : rest \in DescOrders(rows, left \ {i})} :
                  i \in {k \in left : \A j \in left :
                                         rows[k].timestamp >= rows[j].timestamp}}

\* SELECT status, timestamp ... ORDER BY timestamp DESC: every order of the rows that
\* is descending by timestamp (SQL leaves the order of equal timestamps open)
OrderByTimestampDesc(rows) == DescOrders(rows, 1..Len(rows))

\* a handler returns its Response
Respond(s, code, body) ==
    reqs' = [reqs EXCEPT ![s] = [IdleReq EXCEPT !.op = reqs[s].op,
                 !.owner = reqs[s].owner, !.id = reqs[s].id, !.now = reqs[s].now,
                 !.pre = reqs[s].pre, !.pc = "done", !.code = code,
                 !.body = body]]

Goto(s, pc) == reqs' = [reqs EXCEPT ![s].pc = pc]

\* the instants the clock may have reached when the provider reads it
Later == clock + 1 .. MaxClock

Init ==
    /\ clock = 0
    /\ tracking = {}
    /\ tracking_history = <<>>
    /\ reqs = [s \in Slots |-> IdleReq]
    /\ failures = 0
    /\ requested = 0
    /\ trackingData = <<>>
    /\ checkInterval = NoTimer
    /\ timers = {}
    /\ session = <<>>
    /\ permission = "default"
    /\ notifications = <<>>
    /\ view = "form"
    /\ input = <<>>
    /\ valid = <<>>
    /\ elapsed = <<>>
    /\ answers = <<>>

----------------------------------------------------------------------------
(* onRequest: routing a request to its handler *)

\* a slot is free for a request once its response is taken
Free(s) ==
    \/ reqs[s].pc = "idle"
    \/ reqs[s].pc = "done" /\ reqs[s].owner.who # "page"

\* a slot may take a request: the lowest free one
FreeSlot(s) ==
    /\ Free(s)
    /\ \A t \in Slots : t < s => ~Free(t)

\* addTracking without its validation: what InvalidAddRejected must reject
AddRequestUnvalidated(owner, raw, ne) ==
    [IdleReq EXCEPT !.op = "add", !.owner = owner, !.ne = ne,
                    !.id = CleanId(raw), !.pre = Stored(CleanId(raw)),
                    !.now = clock, !.pc = "add_select"]

\* POST /api/tracking: addTracking down to `now`, with the 400 of an invalid identifier
AddRequest(owner, raw, ne) ==
    IF ~validateTrackingId(raw)
    THEN [IdleReq EXCEPT !.op = "add", !.owner = owner, !.id = CleanId(raw),
                         !.pre = Stored(CleanId(raw)), !.pc = "done", !.code = 400]
    ELSE [IdleReq EXCEPT !.op = "add", !.owner = owner, !.ne = ne,
                         !.id = CleanId(raw), !.pre = Stored(CleanId(raw)),
                         !.now = clock, !.pc = "add_select"]

\* a character of a request's path as url.pathname holds it: white space is in the
\* path percent-encoded, and pathname does not decode it
PathChar(c) ==
    CASE c = " " -> <<"%", "2", "0">>
      [] c = "\t" -> <<"%", "0", "9">>
      [] c = "\n" -> <<"%", "0", "A">>
      [] OTHER -> <<c>>

\* path.split('/api/tracking/')[1], for a request made for the identifier `raw`.
\* (The identifiers the page puts in a path are those the Worker has answered,
\* which hold no white space: their segments are the identifiers themselves.)
RECURSIVE PathSegment(_)
PathSegment(raw) ==
    IF raw = <<>> THEN <<>> ELSE PathChar(Head(raw)) \o PathSegment(Tail(raw))

\* GET /api/tracking/<id>, `raw` being the path's segment
GetRequest(owner, raw) ==
    [IdleReq EXCEPT !.op = "get", !.owner = owner, !.id = CleanId(raw),
                    !.pre = Stored(CleanId(raw)), !.pc = "get_select"]

\* POST /api/tracking/<id>/check
CheckRequest(owner, raw) ==
    [IdleReq EXCEPT !.op = "check", !.owner = owner, !.id = CleanId(raw),
                    !.pre = Stored(CleanId(raw)), !.pc = "chk_select"]

\* DELETE /api/tracking/<id>
DeleteRequest(owner, raw) ==
    [IdleReq EXCEPT !.op = "delete", !.owner = owner, !.id = CleanId(raw),
                    !.pre = Stored(CleanId(raw)), !.pc = "del_delete"]

\* who may send a request now: "seq" waits for each response before its next
\* request, "ext" callers and the page's handlers overlap
Admit(s, who) ==
    /\ FreeSlot(s)
    /\ who = "seq" => \A t \in Slots : Free(t)
    /\ who # "seq" => requested < MaxRequests
    /\ requested' = IF who # "seq" THEN requested + 1 ELSE requested

StartAdd(s, who, raw, ne) ==
    /\ Admit(s, who)
    /\ reqs' = [reqs EXCEPT ![s] = AddRequest(Caller(who), raw, ne)]
    /\ UNCHANGED <<clock, tracking, tracking_history, failures, pageVars>>

StartGet(s, who, raw) ==
    /\ Admit(s, who)
    /\ reqs' = [reqs EXCEPT ![s] = GetRequest(Caller(who), PathSegment(raw))]
    /\ UNCHANGED <<clock, tracking, tracking_history, failures, pageVars>>

StartCheck(s, who, raw) ==
    /\ Admit(s, who)
    /\ reqs' = [reqs EXCEPT ![s] = CheckRequest(Caller(who), PathSegment(raw))]
    /\ UNCHANGED <<clock, tracking, tracking_history, failures, pageVars>>

StartDelete(s, who, raw) ==
    /\ Admit(s, who)
    /\ reqs' = [reqs EXCEPT ![s] = DeleteRequest(Caller(who), PathSegment(raw))]
    /\ UNCHANGED <<clock, tracking, tracking_history, failures, pageVars>>

----------------------------------------------------------------------------
(* addTracking *)

\* addTracking without its check for an existing record: what AddOfExistingConflicts
\* must reject
AddSelectNoConflict(s) ==
    /\ reqs[s].pc = "add_select"
    /\ Goto(s, "add_insert")
    /\ UNCHANGED <<clock, tracking, tracking_history, failures, requested, pageVars>>

\* SELECT * FROM tracking WHERE tracking_id = ?  ->  409 if it exists
AddSelect(s) ==
    /\ reqs[s].pc = "add_select"
    /\ IF Exists(reqs[s].id)
       THEN Respond(s, 409, NoBody)
       ELSE Goto(s, "add_insert")
    /\ UNCHANGED <<clock, tracking, tracking_history, failures, requested, pageVars>>

\* the INSERT over a table whose tracking_id is not UNIQUE: what OneRecordPerId
\* must reject
AddInsertNoUnique(s) ==
    /\ reqs[s].pc = "add_insert"
    /\ tracking' = tracking \cup
           {TrackingRow(reqs[s].id, reqs[s].ne, reqs[s].now, reqs[s].now,
                        NoStatus, FALSE, reqs[s].now)}
    /\ Goto(s, "add_fetch")
    /\ UNCHANGED <<clock, tracking_history, failures, requested, pageVars>>

\* INSERT INTO tracking (...): tracking_id is UNIQUE, a second row throws
AddInsert(s) ==
    /\ reqs[s].pc = "add_insert"
    /\ IF Exists(reqs[s].id)
       THEN /\ Respond(s, 500, NoBody)
            /\ UNCHANGED tracking
       ELSE /\ tracking' = tracking \cup
                    {TrackingRow(reqs[s].id, reqs[s].ne, reqs[s].now, reqs[s].now,
                                 NoStatus, FALSE, reqs[s].now)}
            /\ Goto(s, "add_fetch")
    /\ UNCHANGED <<clock, tracking_history, failures, requested, pageVars>>

\* status = await fetchRoyalMailStatus(cleanId, now): the provider's delay passes,
\* then it reads the clock
AddFetch(s) ==
    /\ reqs[s].pc = "add_fetch"
    /\ \E t \in Later :
          /\ clock' = t
          /\ reqs' = [reqs EXCEPT ![s].pc = "add_history",
                                  ![s].st = fetchRoyalMailStatus(t - reqs[s].now)]
    /\ UNCHANGED <<tracking, tracking_history, failures, requested, pageVars>>

\* an INSERT OR REPLACE keyed on the identifier in place of the INSERT: what
\* HistoryIsAppendOnly must reject
InsertHistoryReplacing(s, next) ==
    IF Exists(reqs[s].id)
    THEN /\ tracking_history' =
                Append(SelectSeq(tracking_history,
                                 LAMBDA h : h.tracking_id # reqs[s].id),
                       HistoryRow(reqs[s].id, reqs[s].st.status, reqs[s].now))
         /\ Goto(s, next)
    ELSE /\ Respond(s, 500, NoBody)
         /\ UNCHANGED tracking_history

\* INSERT INTO tracking_history (...): the foreign key needs the tracking row
InsertHistory(s, next) ==
    IF Exists(reqs[s].id)
    THEN /\ tracking_history' = Append(tracking_history,
                HistoryRow(reqs[s].id, reqs[s].st.status, reqs[s].now))
         /\ Goto(s, next)
    ELSE /\ Respond(s, 500, NoBody)
         /\ UNCHANGED tracking_history

AddHistory(s) ==
    /\ reqs[s].pc = "add_history"
    /\ InsertHistory(s, "add_update")
    /\ UNCHANGED <<clock, tracking, failures, requested, pageVars>>

\* addTracking with an UPDATE that leaves last_status out: what AddLeavesOneEntry
\* must reject
AddUpdateKeepsStatus(s) ==
    /\ reqs[s].pc = "add_update"
    /\ tracking' = {IF r.tracking_id = reqs[s].id
                     THEN [r EXCEPT !.delivered = reqs[s].st.delivered,
                                    !.updated_at = reqs[s].now]
                     ELSE r : r \in tracking}
    /\ Respond(s, 201, [NoBody EXCEPT !.trackingId = reqs[s].id,
                                      !.status = reqs[s].st.status,
                                      !.delivered = reqs[s].st.delivered,
                                      !.notificationsEnabled = reqs[s].ne])
    /\ UNCHANGED <<clock, tracking_history, failures, requested, pageVars>>

\* UPDATE tracking SET last_status = ?, delivered = ?, updated_at = ? WHERE ...
AddUpdate(s) ==
    /\ reqs[s].pc = "add_update"
    /\ tracking' = {IF r.tracking_id = reqs[s].id
                     THEN [r EXCEPT !.last_status = reqs[s].st.status,
                                    !.delivered = reqs[s].st.delivered,
                                    !.updated_at = reqs[s].now]
                     ELSE r : r \in tracking}
    /\ Respond(s, 201, [NoBody EXCEPT !.trackingId = reqs[s].id,
                                      !.status = reqs[s].st.status,
                                      !.delivered = reqs[s].st.delivered,
                                      !.notificationsEnabled = reqs[s].ne])
    /\ UNCHANGED <<clock, tracking_history, failures, requested, pageVars>>

----------------------------------------------------------------------------
(* getTracking *)

GetSelect(s) ==
    /\ reqs[s].pc = "get_select"
    /\ IF ~Exists(reqs[s].id)
       THEN Respond(s, 404, NoBody)
       ELSE reqs' = [reqs EXCEPT ![s].pc = "get_history", ![s].row = RowOf(reqs[s].id)]
    /\ UNCHANGED <<clock, tracking, tracking_history, failures, requested, pageVars>>

\* SELECT status, timestamp FROM tracking_history ... ORDER BY timestamp DESC
GetHistory(s) ==
    /\ reqs[s].pc = "get_history"
    /\ \E h \in OrderByTimestampDesc(Project(HistoryOf(reqs[s].id))) :
          Respond(s, 200, [NoBody EXCEPT
              !.trackingId = reqs[s].row.tracking_id,
              !.notificationsEnabled = reqs[s].row.notifications_enabled,
              !.startedAt = reqs[s].row.started_at,
              !.lastChecked = reqs[s].row.last_checked,
              !.lastStatus = reqs[s].row.last_status,
              !.delivered = reqs[s].row.delivered,
              !.history = h])
    /\ UNCHANGED <<clock, tracking, tracking_history, failures, requested, pageVars>>

----------------------------------------------------------------------------
(* updateTracking *)

\* updateTracking without its early return for a delivered record: what
\* DeliveredCheckIsNoOp must reject
CheckSelectNoEarlyReturn(s) ==
    /\ reqs[s].pc = "chk_select"
    /\ IF ~Exists(reqs[s].id)
       THEN Respond(s, 404, NoBody)
       ELSE reqs' = [reqs EXCEPT ![s].pc = "chk_fetch",
                                 ![s].row = RowOf(reqs[s].id), ![s].now = clock]
    /\ UNCHANGED <<clock, tracking, tracking_history, failures, requested, pageVars>>

\* the SELECT, the 404, the "already delivered" early return, and now = new Date()
CheckSelect(s) ==
    /\ reqs[s].pc = "chk_select"
    /\ IF ~Exists(reqs[s].id)
       THEN Respond(s, 404, NoBody)
       ELSE IF RowOf(reqs[s].id).delivered
       THEN Respond(s, 200, [NoBody EXCEPT !.delivered = TRUE])
       ELSE reqs' = [reqs EXCEPT ![s].pc = "chk_fetch",
                                 ![s].row = RowOf(reqs[s].id), ![s].now = clock]
    /\ UNCHANGED <<clock, tracking, tracking_history, failures, requested, pageVars>>

\* updateTracking taking every answer of the provider for a change: what
\* HistoryFollowsChecks must reject
CheckFetchAlwaysChanged(s) ==
    /\ reqs[s].pc = "chk_fetch"
    /\ \E t \in Later :
          /\ clock' = t
          /\ reqs' = [reqs EXCEPT
                        ![s].st = fetchRoyalMailStatus(t - reqs[s].row.started_at),
                        ![s].changed = TRUE, ![s].pc = "chk_history"]
    /\ UNCHANGED <<tracking, tracking_history, failures, requested, pageVars>>

\* newStatus = await fetchRoyalMailStatus(cleanId, tracking.started_at);
\* statusChanged = tracking.last_status !== newStatus.status
CheckFetch(s) ==
    /\ reqs[s].pc = "chk_fetch"
    /\ \E t \in Later :
          LET st == fetchRoyalMailStatus(t - reqs[s].row.started_at)
              changed == reqs[s].row.last_status # st.status
          IN /\ clock' = t
             /\ reqs' = [reqs EXCEPT ![s].st = st, ![s].changed = changed,
                            ![s].pc = IF changed THEN "chk_history" ELSE "chk_touch"]
    /\ UNCHANGED <<tracking, tracking_history, failures, requested, pageVars>>

\* updateTracking stamping its history entry with the instant after the provider
\* answered: what ChangedCheckAppendsOne must reject
CheckHistoryStampedLate(s) ==
    /\ reqs[s].pc = "chk_history"
    /\ IF Exists(reqs[s].id)
       THEN /\ tracking_history' = Append(tracking_history,
                   HistoryRow(reqs[s].id, reqs[s].st.status, clock))
            /\ Goto(s, "chk_update")
       ELSE /\ Respond(s, 500, NoBody)
            /\ UNCHANGED tracking_history
    /\ UNCHANGED <<clock, tracking, failures, requested, pageVars>>

CheckHistory(s) ==
    /\ reqs[s].pc = "chk_history"
    /\ InsertHistory(s, "chk_update")
    /\ UNCHANGED <<clock, tracking, failures, requested, pageVars>>

\* the body of updateTracking's 200 response
CheckBody(s) ==
    [NoBody EXCEPT !.trackingId = reqs[s].id,
                   !.status = reqs[s].st.status,
                   !.delivered = reqs[s].st.delivered,
                   !.statusChanged = reqs[s].changed,
                   !.notificationsEnabled = reqs[s].row.notifications_enabled]

\* updateTracking with an UPDATE that also sets started_at: what StartedAtIsFixed
\* must reject
CheckUpdateRestarts(s) ==
    /\ reqs[s].pc = "chk_update"
    /\ tracking' = {IF r.tracking_id = reqs[s].id
                     THEN [r EXCEPT !.last_status = reqs[s].st.status,
                                    !.delivered = reqs[s].st.delivered,
                                    !.started_at = reqs[s].now,
                                    !.last_checked = reqs[s].now,
                                    !.updated_at = reqs[s].now]
                     ELSE r : r \in tracking}
    /\ Respond(s, 200, CheckBody(s))
    /\ UNCHANGED <<clock, tracking_history, failures, requested, pageVars>>

\* updateTracking with an UPDATE that leaves delivered out: what EventuallyDelivered
\* must reject
CheckUpdateStatusOnly(s) ==
    /\ reqs[s].pc = "chk_update"
    /\ tracking' = {IF r.tracking_id = reqs[s].id
                     THEN [r EXCEPT !.last_status = reqs[s].st.status,
                                    !.last_checked = reqs[s].now,
                                    !.updated_at = reqs[s].now]
                     ELSE r : r \in tracking}
    /\ Respond(s, 200, CheckBody(s))
    /\ UNCHANGED <<clock, tracking_history, failures, requested, pageVars>>

\* UPDATE tracking SET last_status = ?, delivered = ?, last_checked = ?, updated_at = ?
CheckUpdate(s) ==
    /\ reqs[s].pc = "chk_update"
    /\ tracking' = {IF r.tracking_id = reqs[s].id
                     THEN [r EXCEPT !.last_status = reqs[s].st.status,
                                    !.delivered = reqs[s].st.delivered,
                                    !.last_checked = reqs[s].now,
                                    !.updated_at = reqs[s].now]
                     ELSE r : r \in tracking}
    /\ Respond(s, 200, CheckBody(s))
    /\ UNCHANGED <<clock, tracking_history, failures, requested, pageVars>>

\* updateTracking without the UPDATE of its unchanged branch: what
\* UnchangedCheckOnlyTouches must reject
CheckTouchSkipped(s) ==
    /\ reqs[s].pc = "chk_touch"
    /\ Respond(s, 200, CheckBody(s))
    /\ UNCHANGED <<clock, tracking, tracking_history, failures, requested, pageVars>>

\* UPDATE tracking SET last_checked = ?, updated_at = ?
CheckTouch(s) ==
    /\ reqs[s].pc = "chk_touch"
    /\ tracking' = {IF r.tracking_id = reqs[s].id
                     THEN [r EXCEPT !.last_checked = reqs[s].now,
                                    !.updated_at = reqs[s].now]
                     ELSE r : r \in tracking}
    /\ Respond(s, 200, CheckBody(s))
    /\ UNCHANGED <<clock, tracking_history, failures, requested, pageVars>>

----------------------------------------------------------------------------
(* deleteTracking *)

\* deleteTracking over a schema without ON DELETE CASCADE: what DeleteThenFresh
\* must reject
DeleteRunNoCascade(s) ==
    /\ reqs[s].pc = "del_delete"
    /\ IF ~Exists(reqs[s].id)
       THEN /\ Respond(s, 404, NoBody)
            /\ UNCHANGED tracking
       ELSE /\ tracking' = {r \in tracking : r.tracking_id # reqs[s].id}
            /\ Respond(s, 200, NoBody)
    /\ UNCHANGED <<clock, tracking_history, failures, requested, pageVars>>

\* a property the object read does not have
UndefinedCount == 0 - 1

\* result.changes, for the result of the DELETE's run(): the number of rows deleted
\* where the D1 result carries it as its own property, undefined where the result
\* carries it as meta.changes only
ResultChanges(id) ==
    {Cardinality({r \in tracking : r.tracking_id = id}), UndefinedCount}

\* DELETE FROM tracking WHERE tracking_id = ?, with ON DELETE CASCADE on the history;
\* 404 if (result.changes === 0)
DeleteRun(s) ==
    /\ reqs[s].pc = "del_delete"
    /\ tracking' = {r \in tracking : r.tracking_id # reqs[s].id}
    /\ tracking_history' =
           SelectSeq(tracking_history, LAMBDA h : h.tracking_id # reqs[s].id)
    /\ \E changes \in ResultChanges(reqs[s].id) :
          IF changes = 0
          THEN Respond(s, 404, NoBody)
          ELSE Respond(s, 200, NoBody)
    /\ UNCHANGED <<clock, failures, requested, pageVars>>

----------------------------------------------------------------------------
(* Store failures *)

StorePcs == {"add_select", "add_insert", "add_history", "add_update",
             "get_select", "get_history",
             "chk_select", "chk_history", "chk_update", "chk_touch",
             "del_delete"}

\* a store statement rejects: the handler's catch returns 500
StoreFails(s) ==
    /\ reqs[s].pc \in StorePcs
    /\ failures < MaxFailures
    /\ failures' = failures + 1
    /\ Respond(s, 500, NoBody)
    /\ UNCHANGED <<clock, tracking, tracking_history, requested, pageVars>>

Handle(s) ==
    \/ AddSelect(s) \/ AddInsert(s) \/ AddFetch(s) \/ AddHistory(s) \/ AddUpdate(s)
    \/ GetSelect(s) \/ GetHistory(s)
    \/ CheckSelect(s) \/ CheckFetch(s) \/ CheckHistory(s) \/ CheckUpdate(s)
    \/ CheckTouch(s)
    \/ DeleteRun(s)
    \/ StoreFails(s)

----------------------------------------------------------------------------
(* The page: class RoyalMailTracker.  The DOM it writes (the error text, the   *)
(* status panel's fields, the one-second countdown interval) is not modelled,   *)
(* beyond which of the form and the status panel is displayed.  The length of   *)
(* the check interval is not modelled either: a live interval may fire at any   *)
(* instant.                                                                      *)

TrackingData(id, ne, startedAt, lastChecked, lastStatus, history, delivered) ==
    [trackingId |-> id, notificationsEnabled |-> ne, startedAt |-> startedAt,
     lastChecked |-> lastChecked, lastStatus |-> lastStatus, history |-> history,
     delivered |-> delivered]

Ok(code) == code >= 200 /\ code <= 299

\* saveLocalSession, for the tracking data given
SavedSession(data) == IF data = <<>> THEN <<>> ELSE <<data[1].trackingId>>

\* loadFromAPI after its fetch: this.trackingData as the response leaves it
Loaded(s) ==
    IF Ok(reqs[s].code)
    THEN <<TrackingData(reqs[s].body.trackingId, reqs[s].body.notificationsEnabled,
                        reqs[s].body.startedAt, reqs[s].body.lastChecked,
                        reqs[s].body.lastStatus, reqs[s].body.history,
                        reqs[s].body.delivered)>>
    ELSE trackingData

\* stopPeriodicCheck: the intervals left
Cleared == timers \ {checkInterval}

\* handleAddTracking down to its fetch: the form is submitted with an identifier that
\* validates; `answer` is what the user answers if asked for the permission
SubmitAdd(s, raw, enable, answer) ==
    /\ view = "form"
    /\ validateTrackingId(CleanId(raw))
    /\ Admit(s, "page")
    /\ permission' = IF enable /\ permission = "default" THEN answer ELSE permission
    /\ reqs' = [reqs EXCEPT ![s] =
                  AddRequest(Page("add", NoBody), CleanId(raw),
                             enable /\ permission' = "granted")]
    /\ UNCHANGED <<clock, tracking, tracking_history, failures,
                   trackingData, checkInterval, timers, session, notifications, view, formVars>>

\* handleAddTracking after its fetch: the local tracking data, then loadFromAPI's fetch
AddReceived(s) ==
    /\ reqs[s].pc = "done"
    /\ reqs[s].owner.who = "page"
    /\ reqs[s].owner.cont = "add"
    /\ IF ~Ok(reqs[s].code)
       THEN /\ reqs' = [reqs EXCEPT ![s] = IdleReq]
            /\ UNCHANGED <<trackingData, session, view>>
       ELSE /\ trackingData' =
                  <<TrackingData(reqs[s].body.trackingId,
                                 reqs[s].body.notificationsEnabled, clock, clock,
                                 reqs[s].body.status,
                                 <<[status |-> reqs[s].body.status, timestamp |-> clock]>>,
                                 reqs[s].body.delivered)>>
            /\ session' = SavedSession(trackingData')
            /\ view' = "status"
            /\ reqs' = [reqs EXCEPT ![s] =
                          GetRequest(Page("add_load", NoBody), reqs[s].body.trackingId)]
    /\ UNCHANGED <<clock, tracking, tracking_history, failures, requested,
                   checkInterval, timers, permission, notifications, formVars>>

\* handleAddTracking with a startPeriodicCheck that does not stop the interval held:
\* what OneTimerAlive must reject
AddLoadedKeepsTimers(s) ==
    /\ reqs[s].pc = "done"
    /\ reqs[s].owner.who = "page"
    /\ reqs[s].owner.cont = "add_load"
    /\ trackingData' = Loaded(s)
    /\ session' = IF Ok(reqs[s].code) THEN SavedSession(trackingData') ELSE session
    /\ checkInterval' = CHOOSE t \in 1..(Cardinality(timers) + 1) : t \notin timers
    /\ timers' = timers \cup {checkInterval'}
    /\ reqs' = [reqs EXCEPT ![s] = IdleReq]
    /\ UNCHANGED <<clock, tracking, tracking_history, failures, requested,
                   permission, notifications, view, formVars>>

\* loadFromAPI after its fetch, then the rest of handleAddTracking: startPeriodicCheck
AddLoaded(s) ==
    /\ reqs[s].pc = "done"
    /\ reqs[s].owner.who = "page"
    /\ reqs[s].owner.cont = "add_load"
    /\ trackingData' = Loaded(s)
    /\ session' = IF Ok(reqs[s].code) THEN SavedSession(trackingData') ELSE session
    /\ checkInterval' = CHOOSE t \in 1..(Cardinality(Cleared) + 1) : t \notin Cleared
    /\ timers' = Cleared \cup {checkInterval'}
    /\ reqs' = [reqs EXCEPT ![s] = IdleReq]
    /\ UNCHANGED <<clock, tracking, tracking_history, failures, requested,
                   permission, notifications, view, formVars>>

\* the interval's callback: checkTrackingStatus down to its fetch
TimerTick(s) ==
    /\ timers # {}
    /\ trackingData # <<>>
    /\ ~trackingData[1].delivered
    /\ Admit(s, "page")
    /\ reqs' = [reqs EXCEPT ![s] =
                  CheckRequest(Page("check", NoBody), trackingData[1].trackingId)]
    /\ UNCHANGED <<clock, tracking, tracking_history, failures, pageVars>>

\* checkTrackingStatus after its fetch: the local data, then loadFromAPI's fetch if
\* the status changed
CheckReceived(s) ==
    /\ reqs[s].pc = "done"
    /\ reqs[s].owner.who = "page"
    /\ reqs[s].owner.cont = "check"
    /\ IF ~Ok(reqs[s].code) \/ trackingData = <<>>
       THEN \* the early return, or the TypeError the catch logs
            /\ reqs' = [reqs EXCEPT ![s] = IdleReq]
            /\ UNCHANGED <<trackingData, session>>
       ELSE /\ trackingData' = <<[trackingData[1] EXCEPT
                                    !.lastStatus = reqs[s].body.status,
                                    !.delivered = reqs[s].body.delivered,
                                    !.lastChecked = clock]>>
            /\ IF reqs[s].body.statusChanged
               THEN /\ reqs' = [reqs EXCEPT ![s] =
                                  GetRequest(Page("check_load", reqs[s].body),
                                             trackingData[1].trackingId)]
                    /\ UNCHANGED session
               ELSE /\ reqs' = [reqs EXCEPT ![s] = IdleReq]
                    /\ session' = SavedSession(trackingData')
    /\ UNCHANGED <<clock, tracking, tracking_history, failures, requested,
                   checkInterval, timers, permission, notifications, view, formVars>>

\* sendNotification with its first test inverted: what ChangeNotifiesOnce must reject
NotifiedInverted(data, status) ==
    IF ~data[1].notificationsEnabled /\ permission = "granted"
    THEN Append(notifications, [trackingId |-> data[1].trackingId, status |-> status])
    ELSE notifications

\* sendNotification
Notified(data, status) ==
    IF data[1].notificationsEnabled /\ permission = "granted"
    THEN Append(notifications, [trackingId |-> data[1].trackingId, status |-> status])
    ELSE notifications

\* loadFromAPI after its fetch, then the rest of checkTrackingStatus: stop the
\* interval if delivered, notify if enabled, save the session
CheckLoaded(s) ==
    /\ reqs[s].pc = "done"
    /\ reqs[s].owner.who = "page"
    /\ reqs[s].owner.cont = "check_load"
    /\ trackingData' = Loaded(s)
    /\ IF reqs[s].owner.data.delivered
       THEN checkInterval' = NoTimer /\ timers' = Cleared
       ELSE UNCHANGED <<checkInterval, timers>>
    /\ IF reqs[s].owner.data.notificationsEnabled /\ trackingData' = <<>>
       THEN \* sendNotification reads null: the TypeError skips the save
            /\ UNCHANGED notifications
            /\ session' = session
       ELSE /\ notifications' =
                  IF reqs[s].owner.data.notificationsEnabled
                  THEN Notified(trackingData', reqs[s].owner.data.status)
                  ELSE notifications
            /\ session' = SavedSession(trackingData')
    /\ reqs' = [reqs EXCEPT ![s] = IdleReq]
    /\ UNCHANGED <<clock, tracking, tracking_history, failures, requested,
                   permission, view, formVars>>

\* stopTracking down to its fetch (the confirm answered yes)
ClickStop(s) ==
    /\ view = "status"
    /\ trackingData # <<>>
    /\ Admit(s, "page")
    /\ reqs' = [reqs EXCEPT ![s] =
                  DeleteRequest(Page("stop", NoBody), trackingData[1].trackingId)]
    /\ UNCHANGED <<clock, tracking, tracking_history, failures, pageVars>>

\* stopTracking after its fetch, whatever the response
StopReceived(s) ==
    /\ reqs[s].pc = "done"
    /\ reqs[s].owner.who = "page"
    /\ reqs[s].owner.cont = "stop"
    /\ checkInterval' = NoTimer
    /\ timers' = Cleared
    /\ trackingData' = <<>>
    /\ session' = <<>>
    /\ view' = "form"
    /\ reqs' = [reqs EXCEPT ![s] = IdleReq]
    /\ UNCHANGED <<clock, tracking, tracking_history, failures, requested,
                   permission, notifications, formVars>>

PageStep(s) ==
    \/ \E raw \in RawIds, enable \in BOOLEAN, answer \in {"granted", "denied"} :
          SubmitAdd(s, raw, enable, answer)
    \/ AddReceived(s) \/ AddLoaded(s)
    \/ TimerTick(s) \/ CheckReceived(s) \/ CheckLoaded(s)
    \/ ClickStop(s) \/ StopReceived(s)

\* the requests a caller of the API may send
Request(s, who) ==
    \/ \E raw \in RawIds, ne \in BOOLEAN : StartAdd(s, who, raw, ne)
    \/ \E raw \in RawIds : StartGet(s, who, raw)
    \/ \E raw \in RawIds : StartCheck(s, who, raw)
    \/ \E raw \in RawIds : StartDelete(s, who, raw)

\* the API under callers whose requests may overlap
NextApi ==
    \/ \E s \in Slots : Request(s, "ext")
    \/ \E s \in Slots : Handle(s)

SpecApi == Init /\ [][NextApi]_vars

\* the API under one caller that waits for each response before its next request
NextSeq ==
    \/ \E s \in Slots : Request(s, "seq")
    \/ \E s \in Slots : Handle(s)

SpecSeq == Init /\ [][NextSeq]_vars

\* the store and the Worker once a caller's Add of an identifier, sent at instant 0
\* with nothing else in flight, has been answered at instant 1 (a state of SpecSeq)
AddAnswered ==
    LET id == CleanId(GoodRaw)
        st == fetchRoyalMailStatus(1)
    IN /\ clock = 1
       /\ tracking = {TrackingRow(id, FALSE, 0, 0, st.status, st.delivered, 0)}
       /\ tracking_history = <<HistoryRow(id, st.status, 0)>>
       /\ reqs = [s \in Slots |->
                    IF s = 1
                    THEN [IdleReq EXCEPT !.op = "add", !.owner = Caller("seq"),
                             !.id = id, !.now = 0, !.pc = "done", !.code = 201,
                             !.body = [NoBody EXCEPT !.trackingId = id,
                                          !.status = st.status,
                                          !.delivered = st.delivered]]
                    ELSE IdleReq]
       /\ failures = 0
       /\ requested = 0
       /\ trackingData = <<>>
       /\ checkInterval = NoTimer
       /\ timers = {}
       /\ session = <<>>
       /\ permission = "default"
       /\ notifications = <<>>
       /\ view = "form"
       /\ input = <<>>
       /\ valid = <<>>
       /\ elapsed = <<>>
       /\ answers = <<>>

\* the API under overlapping callers of an identifier that is tracked already
SpecTracked == AddAnswered /\ [][NextApi]_vars

\* The provider of fetchRoyalMailStatus is a stand-in ("in production, this would
\* call the actual Royal Mail API"): what updateTracking does with an answer is
\* also checked for a provider that may report delivery with any of the statuses.
Answers(e) ==
    {StatusOf(fetchRoyalMailStatus(e).status, d) : d \in BOOLEAN}

\* updateTracking with its handling of delivery not tied to a change of status:
\* what SameStatusNotDelivered must reject
CheckFetchAnyOnDelivered(s) ==
    /\ reqs[s].pc = "chk_fetch"
    /\ \E t \in Later : \E st \in Answers(t - reqs[s].row.started_at) :
          LET changed == reqs[s].row.last_status # st.status \/ st.delivered
          IN /\ clock' = t
             /\ reqs' = [reqs EXCEPT ![s].st = st, ![s].changed = changed,
                            ![s].pc = IF changed THEN "chk_history" ELSE "chk_touch"]
    /\ UNCHANGED <<tracking, tracking_history, failures, requested, pageVars>>

\* newStatus = await fetchRoyalMailStatus(...), with delivered as the provider likes;
\* statusChanged = tracking.last_status !== newStatus.status
CheckFetchAny(s) ==
    /\ reqs[s].pc = "chk_fetch"
    /\ \E t \in Later : \E st \in Answers(t - reqs[s].row.started_at) :
          LET changed == reqs[s].row.last_status # st.status
          IN /\ clock' = t
             /\ reqs' = [reqs EXCEPT ![s].st = st, ![s].changed = changed,
                            ![s].pc = IF changed THEN "chk_history" ELSE "chk_touch"]
    /\ UNCHANGED <<tracking, tracking_history, failures, requested, pageVars>>

\* the API under one caller that waits for each response, with a provider that may
\* report delivery to a Check at any status
NextAny ==
    \/ \E s \in Slots : Request(s, "seq")
    \/ \E s \in Slots : Handle(s)
    \/ \E s \in Slots : CheckFetchAny(s)

SpecAny == Init /\ [][NextAny]_vars

\* this.CHECK_INTERVAL_MS, in minutes and in ticks
CheckIntervalMinutes == 15

CheckIntervalTicks == CheckIntervalMinutes * TicksPerMinute

\* the first instant at which the interval may fire: startPeriodicCheck runs after
\* the page's data was initialised, so no tick comes sooner than CHECK_INTERVAL_MS
\* after the startedAt the page holds
FirstTick == trackingData[1].startedAt + CheckIntervalTicks

\* time passes until the interval is due
IntervalElapses ==
    /\ timers # {}
    /\ trackingData # <<>>
    /\ clock < FirstTick
    /\ clock' = FirstTick
    /\ UNCHANGED <<tracking, tracking_history, reqs, failures, requested, pageVars>>

\* the interval's callback, once the interval has elapsed: checkTrackingStatus down
\* to its fetch, as often as the interval fires
TimerTickDue(s) ==
    /\ timers # {}
    /\ trackingData # <<>>
    /\ ~trackingData[1].delivered
    /\ clock >= FirstTick
    /\ FreeSlot(s)
    /\ reqs' = [reqs EXCEPT ![s] =
                  CheckRequest(Page("check", NoBody), trackingData[1].trackingId)]
    /\ UNCHANGED <<clock, tracking, tracking_history, failures, requested, pageVars>>

\* updateTracking's await of the provider, which answers one tick later
CheckFetchDue(s) ==
    /\ reqs[s].pc = "chk_fetch"
    /\ LET t == clock + 1
           st == fetchRoyalMailStatus(t - reqs[s].row.started_at)
           changed == reqs[s].row.last_status # st.status
       IN /\ clock' = t
          /\ reqs' = [reqs EXCEPT ![s].st = st, ![s].changed = changed,
                         ![s].pc = IF changed THEN "chk_history" ELSE "chk_touch"]
    /\ UNCHANGED <<tracking, tracking_history, failures, requested, pageVars>>

\* the handlers' steps when every store statement succeeds
Served(s) ==
    \/ AddSelect(s) \/ AddInsert(s) \/ AddFetch(s) \/ AddHistory(s) \/ AddUpdate(s)
    \/ GetSelect(s) \/ GetHistory(s)
    \/ CheckSelect(s) \/ CheckFetchDue(s) \/ CheckHistory(s) \/ CheckUpdate(s)

\* the page's callbacks that run when a response arrives
Resumed(s) ==
    \/ AddReceived(s) \/ AddLoaded(s) \/ CheckReceived(s) \/ CheckLoaded(s)

\* the page with its interval timed, Stop never clicked and no statement rejected
NextLive ==
    \/ \E s \in Slots : \E raw \in RawIds, enable \in BOOLEAN,
                           answer \in {"granted", "denied"} :
          SubmitAdd(s, raw, enable, answer)
    \/ IntervalElapses
    \/ \E s \in Slots : TimerTickDue(s)
    \/ \E s \in Slots : Served(s)
    \/ \E s \in Slots : Resumed(s)

\* requests are served, responses are taken, time passes and the interval fires
SpecLive ==
    /\ Init /\ [][NextLive]_vars
    /\ WF_vars(\E s \in Slots : Served(s))
    /\ WF_vars(\E s \in Slots : Resumed(s))
    /\ WF_vars(IntervalElapses)
    /\ WF_vars(\E s \in Slots : TimerTickDue(s))

\* The texts the validators are tried on: an identifier, upper case or lower, with
\* one character replaced, dropped or inserted, between paddings of white space
Alphabet == {"A", "g", "7", " ", "\n", "-"}

Replaced(s) == {[s EXCEPT ![i] = c] : i \in 1..Len(s), c \in Alphabet}

Dropped(s) == {SubSeq(s, 1, i - 1) \o SubSeq(s, i + 1, Len(s)) : i \in 1..Len(s)}

Inserted(s) ==
    {SubSeq(s, 1, i) \o <<c>> \o SubSeq(s, i + 1, Len(s)) :
        i \in 0..Len(s), c \in Alphabet}

LowerRaw == <<"a", "b", "1", "2", "3", "4", "5", "6", "7", "8", "9", "g", "b">>

Paddings == {<<>>, <<" ">>, <<"\n", " ">>}

Inputs ==
    {pre \o core \o post :
        pre \in Paddings, post \in Paddings,
        core \in UNION {Replaced(b) \cup Dropped(b) \cup Inserted(b) :
                           b \in {GoodRaw, LowerRaw}}}

InitValidate ==
    /\ clock = 0
    /\ tracking = {}
    /\ tracking_history = <<>>
    /\ reqs = [s \in Slots |-> IdleReq]
    /\ failures = 0
    /\ requested = 0
    /\ trackingData = <<>>
    /\ checkInterval = NoTimer
    /\ timers = {}
    /\ session = <<>>
    /\ permission = "default"
    /\ notifications = <<>>
    /\ view = "form"
    /\ input \in Inputs
    /\ valid = <<>>
    /\ elapsed = <<>>
    /\ answers = <<>>

\* the Worker's validator, the page's validator, and the form's validation run on
\* the text
Validate ==
    /\ valid = <<>>
    /\ valid' = <<[server |-> validateTrackingId(input),
                   client |-> pageValidateTrackingId(input),
                   form |-> FormValidates(input)]>>
    /\ UNCHANGED <<apiVars, trackingData, checkInterval, timers, session,
                   permission, notifications, view, input, elapsed, answers>>

NextValidate == Validate

\* the validators on every text of Inputs
SpecValidate == InitValidate /\ [][NextValidate]_vars

\* the stages of the provider, in the order of its branches
Stages ==
    <<"Item received by Royal Mail", "In transit to delivery depot",
      "At local delivery office", "Out for delivery", "Delivered and signed for">>

StageOf(status) == CHOOSE i \in 1..Len(Stages) : Stages[i] = status

MaxElapsed == MaxElapsedMinutes * TicksPerMinute

InitProvider ==
    /\ clock = 0
    /\ tracking = {}
    /\ tracking_history = <<>>
    /\ reqs = [s \in Slots |-> IdleReq]
    /\ failures = 0
    /\ requested = 0
    /\ trackingData = <<>>
    /\ checkInterval = NoTimer
    /\ timers = {}
    /\ session = <<>>
    /\ permission = "default"
    /\ notifications = <<>>
    /\ view = "form"
    /\ input = <<>>
    /\ valid = <<>>
    /\ elapsed \in {<<e1, e2>> : e1 \in 0..MaxElapsed, e2 \in 0..MaxElapsed}
    /\ elapsed[1] <= elapsed[2]
    /\ answers = <<>>

\* the provider is asked at the two elapsed times
AskProvider ==
    /\ answers = <<>>
    /\ answers' = <<fetchRoyalMailStatus(elapsed[1]), fetchRoyalMailStatus(elapsed[2])>>
    /\ UNCHANGED <<apiVars, trackingData, checkInterval, timers, session,
                   permission, notifications, view, input, valid, elapsed>>

NextProvider == AskProvider

\* the provider at every pair of elapsed times, the earlier first
SpecProvider == InitProvider /\ [][NextProvider]_vars

\* the page as the only caller of the API
NextPage ==
    \/ \E s \in Slots : PageStep(s)
    \/ \E s \in Slots : Handle(s)

SpecPage == Init /\ [][NextPage]_vars

----------------------------------------------------------------------------
(* The page reloaded: the document is closed and `new RoyalMailTracker()` runs   *)
(* again.  The closed document's intervals die with it and the responses to     *)
(* its requests are dropped, while the Worker goes on handling them;            *)
(* localStorage and the notification permission stay.                            *)

\* the requests of the closed document: nobody waits for their responses
Orphaned == [t \in Slots |->
               IF reqs[t].owner.who = "page"
               THEN [reqs[t] EXCEPT !.owner = Caller("closed")]
               ELSE reqs[t]]

\* loadLocalSession: the minimal data of a saved session
SessionData ==
    <<TrackingData(session[1], FALSE, NoTime, NoTime, NoStatus, <<>>, FALSE)>>

\* constructor and init with no session saved: nothing is tracked
ReloadEmpty ==
    /\ session = <<>>
    /\ trackingData # <<>> \/ timers # {} \/ view # "form" \/ reqs # Orphaned
    /\ trackingData' = <<>>
    /\ checkInterval' = NoTimer
    /\ timers' = {}
    /\ view' = "form"
    /\ reqs' = Orphaned
    /\ UNCHANGED <<clock, tracking, tracking_history, failures, requested,
                   session, permission, notifications, formVars>>

\* constructor and init with a session saved: loadLocalSession, showTrackingStatus,
\* loadFromAPI down to its fetch, startPeriodicCheck
ReloadSession(s) ==
    /\ session # <<>>
    /\ requested < MaxRequests
    /\ requested' = requested + 1
    /\ Orphaned[s].pc \in {"idle", "done"}
    /\ \A t \in Slots : t < s => Orphaned[t].pc \notin {"idle", "done"}
    /\ trackingData' = SessionData
    /\ view' = "status"
    /\ reqs' = [Orphaned EXCEPT ![s] = GetRequest(Page("init_load", NoBody), session[1])]
    /\ checkInterval' = 1
    /\ timers' = {checkInterval'}
    /\ UNCHANGED <<clock, tracking, tracking_history, failures,
                   session, permission, notifications, formVars>>

\* loadFromAPI after its fetch, called by init
InitLoaded(s) ==
    /\ reqs[s].pc = "done"
    /\ reqs[s].owner.who = "page"
    /\ reqs[s].owner.cont = "init_load"
    /\ trackingData' = Loaded(s)
    /\ session' = IF Ok(reqs[s].code) THEN SavedSession(trackingData') ELSE session
    /\ reqs' = [reqs EXCEPT ![s] = IdleReq]
    /\ UNCHANGED <<clock, tracking, tracking_history, failures, requested,
                   checkInterval, timers, permission, notifications, view, formVars>>

\* the page, reloaded at any time, as the only caller of the API
NextReload ==
    \/ \E s \in Slots : PageStep(s)
    \/ \E s \in Slots : Handle(s)
    \/ ReloadEmpty
    \/ \E s \in Slots : ReloadSession(s)
    \/ \E s \in Slots : InitLoaded(s)

SpecReload == Init /\ [][NextReload]_vars

\* the page once its Add of an identifier, submitted at instant 0 and answered at
\* instant 1, has completed handleAddTracking (a state of SpecPage but for the count
\* of requests)
PageTracking ==
    LET id == CleanId(GoodRaw)
        st == fetchRoyalMailStatus(1)
    IN /\ clock = 1
       /\ tracking = {TrackingRow(id, FALSE, 0, 0, st.status, st.delivered, 0)}
       /\ tracking_history = <<HistoryRow(id, st.status, 0)>>
       /\ reqs = [s \in Slots |-> IdleReq]
       /\ failures = 0
       /\ requested = 0
       /\ trackingData =
             <<TrackingData(id, FALSE, 0, 0, st.status,
                            <<[status |-> st.status, timestamp |-> 0]>>, st.delivered)>>
       /\ checkInterval = 1
       /\ timers = {1}
       /\ session = <<id>>
       /\ permission = "default"
       /\ notifications = <<>>
       /\ view = "status"
       /\ input = <<>>
       /\ valid = <<>>
       /\ elapsed = <<>>
       /\ answers = <<>>

\* the page that tracks an identifier, reloaded at any time and never stopped: the
\* interval fires, the Worker handles the Checks and the Gets, the page takes the
\* responses
NextResumed ==
    \/ \E s \in Slots : TimerTick(s) \/ CheckReceived(s) \/ CheckLoaded(s)
    \/ \E s \in Slots :
          \/ GetSelect(s) \/ GetHistory(s)
          \/ CheckSelect(s) \/ CheckFetch(s) \/ CheckHistory(s) \/ CheckUpdate(s)
          \/ CheckTouch(s)
          \/ StoreFails(s)
    \/ \E s \in Slots : ReloadSession(s)
    \/ \E s \in Slots : InitLoaded(s)

SpecResumed == PageTracking /\ [][NextResumed]_vars

----------------------------------------------------------------------------
(* Properties.  A request whose response is ready keeps the store's contents  *)
(* at its arrival (pre), its own timestamp (now) and its response, so in       *)
(* SpecSeq, where one caller waits for each response, the outcome of a whole   *)
(* operation is read in the state in which its response is ready.              *)

\* the request in slot s is an `op` request whose response is ready
Answered(s, op) == reqs[s].pc = "done" /\ reqs[s].op = op

\* the request in slot s took a step
Stepped(s) == reqs'[s] # reqs[s]

\* C5: a Check on an undelivered record that answers 200 with a status different
\* from the record's last_status has appended exactly one history entry, with that
\* status and the check's timestamp, has set last_status to that status, and
\* reports statusChanged = true.
ChangedCheckAppendsOne ==
    \A s \in Slots :
       (/\ Answered(s, "check") /\ reqs[s].code = 200
        /\ reqs[s].pre.exists /\ ~reqs[s].pre.row.delivered
        /\ reqs[s].body.status # reqs[s].pre.row.last_status)
       => /\ HistoryOf(reqs[s].id) =
                Append(reqs[s].pre.history,
                       HistoryRow(reqs[s].id, reqs[s].body.status, reqs[s].now))
          /\ RowOf(reqs[s].id).last_status = reqs[s].body.status
          /\ reqs[s].body.statusChanged

\* a changed Check has answered, on a record that already had history
ChangedCheckAnswered ==
    \E s \in Slots :
       /\ Answered(s, "check") /\ reqs[s].code = 200
       /\ reqs[s].pre.exists /\ ~reqs[s].pre.row.delivered
       /\ reqs[s].pre.history # <<>>
       /\ reqs[s].body.status # reqs[s].pre.row.last_status

\* C6: after an Add that answers 201 the identifier's history has exactly one
\* entry, its status is the one the provider returned to the Add (the status of
\* the response), and last_status equals it.
AddLeavesOneEntry ==
    \A s \in Slots :
       (Answered(s, "add") /\ reqs[s].code = 201)
       => /\ Len(HistoryOf(reqs[s].id)) = 1
          /\ HistoryOf(reqs[s].id)[1].status = reqs[s].body.status
          /\ reqs[s].body.status \in
                {fetchRoyalMailStatus(e).status : e \in 0..MaxClock}
          /\ RowOf(reqs[s].id).last_status = reqs[s].body.status

\* an Add has answered 201
AddSucceeded ==
    \E s \in Slots : Answered(s, "add") /\ reqs[s].code = 201

\* C7: an Add of an identifier that has a record answers 409 (or 500 if its
\* SELECT was rejected), and the record and its history are what they were when
\* the Add arrived.
AddOfExistingConflicts ==
    \A s \in Slots :
       (Answered(s, "add") /\ reqs[s].pre.exists)
       => /\ reqs[s].code = 409 \/ (reqs[s].code = 500 /\ failures > 0)
          /\ Stored(reqs[s].id) = reqs[s].pre

\* an Add of an identifier that has a record with history has answered 409
ConflictAnswered ==
    \E s \in Slots :
       /\ Answered(s, "add") /\ reqs[s].pre.exists /\ reqs[s].code = 409
       /\ reqs[s].pre.history # <<>>

\* C10: after a Delete that answers 200 the identifier has no record and no
\* history entry; no history entry is ever without its record; a Get of an
\* identifier without a record answers 404 (500 if its SELECT was rejected); an
\* Add of an identifier without a record answers 201 unless a statement was
\* rejected, and then the history holds only the entry that Add wrote.
DeleteThenFresh ==
    /\ \A h \in {tracking_history[i] : i \in 1..Len(tracking_history)} :
          Exists(h.tracking_id)
    /\ \A s \in Slots :
          /\ (Answered(s, "delete") /\ reqs[s].code = 200)
             => ~Exists(reqs[s].id) /\ HistoryOf(reqs[s].id) = <<>>
          /\ (Answered(s, "get") /\ ~reqs[s].pre.exists)
             => reqs[s].code = 404 \/ (reqs[s].code = 500 /\ failures > 0)
          /\ (Answered(s, "add") /\ ~reqs[s].pre.exists /\ RoyalMailPattern(reqs[s].id))
             => /\ reqs[s].code = 201 \/ (reqs[s].code = 500 /\ failures > 0)
                /\ reqs[s].code = 201 =>
                      HistoryOf(reqs[s].id) =
                         <<HistoryRow(reqs[s].id, reqs[s].body.status, reqs[s].now)>>

\* an Add has answered 201 for an identifier whose earlier record, created at an
\* earlier instant, was deleted
ReAddSucceeded ==
    \E s \in Slots :
       /\ Answered(s, "add") /\ reqs[s].code = 201
       /\ ~reqs[s].pre.exists /\ reqs[s].now > 0
       /\ failures = 0

\* the page takes the response of a Check that reports no change: it shows no
\* notification and does not reload
QuietResponse(s) ==
    (/\ reqs[s].pc = "done" /\ reqs[s].owner.who = "page"
     /\ reqs[s].owner.cont = "check" /\ ~reqs[s].body.statusChanged
     /\ Stepped(s))
    => notifications' = notifications /\ reqs'[s] = IdleReq

\* C1: a Check that finds the record delivered leaves both tables as they are and
\* answers at once, reporting no change; the page shows no notification on such a
\* response, and sends no Check while what it holds says delivered.
DeliveredCheckIsNoOp ==
    [][\A s \in Slots :
          /\ (/\ reqs[s].pc = "chk_select" /\ RowOf(reqs[s].id).delivered
              /\ Stepped(s))
             => /\ UNCHANGED <<tracking, tracking_history>>
                /\ reqs'[s].pc = "done"
                /\ ~reqs'[s].body.statusChanged
          /\ QuietResponse(s)
          /\ (reqs'[s].pc = "chk_select" /\ Stepped(s))
             => trackingData # <<>> /\ ~trackingData[1].delivered]_vars

\* the page has the response of a Check that found the record delivered
DeliveredCheckAnswered ==
    \E s \in Slots :
       /\ Answered(s, "check") /\ reqs[s].owner.who = "page"
       /\ reqs[s].code = 200 /\ reqs[s].body.status = Undefined
       /\ reqs[s].pre.exists /\ RowOf(reqs[s].id).delivered

\* C4: a Check on an undelivered record to which the provider returned the
\* record's last_status writes no history entry in any of its steps; the step
\* that answers it leaves last_status and delivered as they are, sets last_checked
\* to the check's timestamp and reports no change; the page shows no notification
\* on such a response.
UnchangedCheckOnlyTouches ==
    [][\A s \in Slots :
          /\ (/\ reqs[s].op = "check"
              /\ reqs[s].pc \in {"chk_history", "chk_update", "chk_touch"}
              /\ reqs[s].st.status = reqs[s].row.last_status
              /\ Stepped(s))
             => /\ tracking_history' = tracking_history
                /\ reqs'[s].code = 200 =>
                      /\ ~reqs'[s].body.statusChanged
                      /\ tracking' = {IF r.tracking_id = reqs[s].id
                                       THEN [r EXCEPT !.last_checked = reqs[s].now,
                                                      !.updated_at = reqs[s].now]
                                       ELSE r : r \in tracking}
          /\ QuietResponse(s)]_vars

\* the page has the response of a Check that found the status unchanged
UnchangedCheckAnswered ==
    \E s \in Slots :
       /\ Answered(s, "check") /\ reqs[s].owner.who = "page"
       /\ reqs[s].code = 200 /\ reqs[s].body.status # Undefined
       /\ ~reqs[s].body.statusChanged
       /\ Exists(reqs[s].id) /\ RowOf(reqs[s].id).last_checked = reqs[s].now

\* C3: when no request is being handled, the last_status of a record with history
\* is the status of a history entry with the greatest timestamp.
LastStatusIsLatest ==
    (\A s \in Slots : reqs[s].pc \in {"idle", "done"})
    => \A r \in tracking :
          LET h == HistoryOf(r.tracking_id)
          IN h # <<>> =>
                \E i \in 1..Len(h) :
                   /\ \A j \in 1..Len(h) : h[j].timestamp <= h[i].timestamp
                   /\ r.last_status = h[i].status

\* C8: after an Add of an identifier without a record answers 500, the store
\* holds no record and no history entry of that identifier.
FailedAddLeavesNothing ==
    \A s \in Slots :
       (Answered(s, "add") /\ reqs[s].code = 500 /\ ~reqs[s].pre.exists)
       => ~Exists(reqs[s].id) /\ HistoryOf(reqs[s].id) = <<>>

\* C9: after a Check answers 500, the record and its history are what they were
\* when the Check arrived.
FailedCheckLeavesStore ==
    \A s \in Slots :
       (Answered(s, "check") /\ reqs[s].code = 500)
       => Stored(reqs[s].id) = reqs[s].pre

\* C2: no step of a Check turns the delivered flag of a record that stays in the
\* store from true to false.
DeliveredIsMonotonic ==
    [][\A s \in Slots :
          (reqs[s].op = "check" /\ Stepped(s))
          => \A r \in tracking : \A q \in tracking' :
                (q.tracking_id = r.tracking_id /\ r.delivered) => q.delivered]_vars

\* the record a Check read is no longer in the store: it was deleted since, whether
\* or not a record has been created for the identifier afterwards (records of one
\* identifier are told apart by started_at)
RecordGone(s) ==
    /\ reqs[s].op = "check"
    /\ reqs[s].pc \in {"chk_fetch", "chk_history", "chk_update", "chk_touch"}
    /\ \A r \in tracking :
          r.tracking_id = reqs[s].id => r.started_at # reqs[s].row.started_at

\* C11: a Check whose record was deleted after the Check read it adds no history
\* entry and changes no record in any of its later steps, also when an Add has
\* created a record for the identifier since.
StaleCheckWritesNothing ==
    [][\A s \in Slots :
          (RecordGone(s) /\ Stepped(s))
          => UNCHANGED <<tracking, tracking_history>>]_vars

\* C12: while the form is displayed (no Add has succeeded since the page was opened
\* or since the last Stop completed), no check interval is set, the page's tracking
\* data is null and no session is saved.
StoppedStaysStopped ==
    view = "form"
    => /\ timers = {} /\ checkInterval = NoTimer
       /\ trackingData = <<>>
       /\ session = <<>>

\* C13: when stopTracking completes, the store holds no record of the identifier
\* it stopped.
StopLeavesNoRecord ==
    [][\A s \in Slots :
          (/\ reqs[s].pc = "done" /\ reqs[s].owner.who = "page"
           /\ reqs[s].owner.cont = "stop" /\ Stepped(s))
          => ~Exists(reqs[s].id)]_vars

\* C14: the page never has two Check requests outstanding (sent, and their
\* responses not yet taken by checkTrackingStatus).
OneCheckOutstanding ==
    Cardinality({s \in Slots : reqs[s].op = "check" /\ reqs[s].owner.who = "page"}) <= 1

\* C15: as long as no store statement has been rejected, no two history entries of
\* an identifier that are adjacent in insertion order carry the same status.
NoRepeatedEntry ==
    failures = 0
    => \A r \in tracking :
          LET h == HistoryOf(r.tracking_id)
          IN \A i \in 1..Len(h) - 1 : h[i].status # h[i + 1].status

\* C16: no step of a Check appends a history entry for a record whose delivered
\* flag is true.
NoEntryAfterDelivered ==
    [][\A s \in Slots :
          (reqs[s].op = "check" /\ Stepped(s))
          => \A r \in tracking :
                (r.delivered /\ r.tracking_id = reqs[s].id)
                => HistoryOf(r.tracking_id)' = HistoryOf(r.tracking_id)]_vars

SameStatusNotDelivered ==
    \A s \in Slots :
       (/\ Answered(s, "check") /\ reqs[s].code = 200
        /\ reqs[s].pre.exists /\ ~reqs[s].pre.row.delivered
        /\ reqs[s].body.delivered
        /\ reqs[s].body.status = reqs[s].pre.row.last_status)
       => /\ ~RowOf(reqs[s].id).delivered
          /\ RowOf(reqs[s].id).last_status = reqs[s].pre.row.last_status
          /\ HistoryOf(reqs[s].id) = reqs[s].pre.history
          /\ ~reqs[s].body.statusChanged

\* a Check has answered with delivered and the status the record already had
SameStatusDeliveredAnswered ==
    \E s \in Slots :
       /\ Answered(s, "check") /\ reqs[s].code = 200
       /\ reqs[s].pre.exists /\ ~reqs[s].pre.row.delivered
       /\ reqs[s].pre.history # <<>>
       /\ reqs[s].body.delivered
       /\ reqs[s].body.status = reqs[s].pre.row.last_status

\* the store says delivered and the page sends no Check: none is outstanding, and
\* either no interval is set or the page's data says delivered
PollingOver ==
    /\ \A r \in tracking : r.delivered
    /\ \A s \in Slots : reqs[s].op # "check" \/ reqs[s].pc = "idle"
    /\ timers = {} \/ (trackingData # <<>> /\ trackingData[1].delivered)

\* C18: if requests are served, time passes, the interval keeps firing and Stop is
\* not clicked, then once a record is in the store there comes an instant from
\* which on the record is delivered in the store and the page sends no Check.
EventuallyDelivered ==
    (tracking # {}) ~> []PollingOver

\* a Check sent by the interval has delivered the record and polling is over
DeliveredByPolling ==
    /\ tracking # {} /\ PollingOver
    /\ timers = {}
    /\ \E r \in tracking : r.last_checked >= CheckIntervalTicks

\* C21: an Add whose identifier fails validation is answered 400 in the step in
\* which it arrives, a step that leaves the clock (no provider call) and both
\* tables as they are; such a request never reaches a statement of the store, and
\* every request the page's form sends carries an identifier that validates.
InvalidAddRejected ==
    [][\A s \in Slots :
          /\ (/\ reqs'[s].op = "add" /\ ~RoyalMailPattern(reqs'[s].id)
              /\ Stepped(s))
             => /\ reqs'[s].pc = "done" /\ reqs'[s].code = 400
                /\ Stored(reqs'[s].id) = reqs'[s].pre
                /\ UNCHANGED <<clock, tracking, tracking_history>>
          /\ (reqs'[s].op = "add" /\ reqs'[s].owner.who = "page")
             => RoyalMailPattern(reqs'[s].id)]_vars

\* an Add of an identifier one letter short, which arrived when the store held a
\* record with history (the earlier requests used the same slot), has answered 400
InvalidAddAnswered ==
    /\ Answered(1, "add") /\ reqs[1].code = 400
    /\ reqs[1].id = ShortRaw
    /\ \A s \in Slots \ {1} : reqs[s] = IdleReq
    /\ tracking # {} /\ tracking_history # <<>>

\* two upper-case letters, then nine digits, then two upper-case letters
WellFormed(s) ==
    /\ Len(s) = 13
    /\ \A i \in {1, 2, 12, 13} : s[i] \in UpperLetters
    /\ \A i \in 3..11 : s[i] \in Digits

\* C22: the Worker's validator returns true for a text exactly when the text,
\* trimmed and upper-cased, is two letters A-Z, nine digits and two letters A-Z
\* and nothing else; the page's validator, and the form's validation of the
\* trimmed and upper-cased value, return the same.
ValidateIsExact ==
    valid # <<>>
    => /\ valid[1].server = WellFormed(ToUpperCase(Trim(input)))
       /\ valid[1].client = valid[1].server
       /\ valid[1].form = valid[1].server

\* a text that is not in clean form (lower case, padded with white space) was
\* found valid
PaddedInputValid ==
    /\ valid # <<>> /\ valid[1].server
    /\ input # CleanId(input)
    /\ Len(input) > Len(Trim(input))
    /\ Trim(input) # ToUpperCase(Trim(input))

\* the lesser of two numbers
Least(a, b) == IF a <= b THEN a ELSE b

\* C23: the provider has exactly five stages; the stage it answers changes every
\* minute of elapsed time up to the fourth minute, from which on it answers the
\* last stage; so of two elapsed times the later never gets an earlier stage;
\* delivered is true exactly with the last stage, and at every elapsed time of
\* four minutes or more.
ProviderIsStepFunction ==
    /\ {fetchRoyalMailStatus(e).status : e \in 0..MaxElapsed}
          = {Stages[i] : i \in 1..Len(Stages)}
    /\ Cardinality({fetchRoyalMailStatus(e).status : e \in 0..MaxElapsed}) = 5
    /\ answers # <<>>
       => /\ \A k \in 1..2 :
                /\ StageOf(answers[k].status)
                      = Least(elapsed[k] \div TicksPerMinute, 4) + 1
                /\ answers[k].delivered <=> StageOf(answers[k].status) = 5
                /\ elapsed[k] >= 4 * TicksPerMinute => answers[k].delivered
          /\ StageOf(answers[1].status) <= StageOf(answers[2].status)

\* the provider was asked in the middle of a stage before the last and again after
\* four minutes: not delivered, then delivered
AskedBeforeAndAfterDelivery ==
    /\ answers # <<>>
    /\ elapsed[1] > TicksPerMinute /\ elapsed[1] < 4 * TicksPerMinute
    /\ elapsed[2] > 4 * TicksPerMinute
    /\ ~answers[1].delivered /\ answers[2].delivered

\* the identifiers requests are made for
CleanIds == {CleanId(raw) : raw \in RawIds}

\* C24: in every step the history of an identifier keeps the entries it had, with
\* their statuses and timestamps and in their order, and at most gains entries
\* after them; the one exception is the step of a Delete of that identifier that
\* answers 200, which leaves it no entry.
HistoryIsAppendOnly ==
    [][\A id \in CleanIds :
          \/ /\ Len(HistoryOf(id)') >= Len(HistoryOf(id))
             /\ SubSeq(HistoryOf(id)', 1, Len(HistoryOf(id))) = HistoryOf(id)
          \/ \E s \in Slots :
                /\ reqs[s].op = "delete" /\ reqs[s].id = id /\ Stepped(s)
                /\ reqs'[s].code = 200
                /\ ~Exists(id)' /\ HistoryOf(id)' = <<>>]_vars

\* a record has a history of three entries, the first still the one its Add wrote
ThreeEntriesKept ==
    \E r \in tracking :
       /\ Len(HistoryOf(r.tracking_id)) >= 3
       /\ HistoryOf(r.tracking_id)[1].timestamp = r.started_at
       /\ HistoryOf(r.tracking_id)[1].status = fetchRoyalMailStatus(0).status

\* C25: a Get that answers 200 returns the record's fields as stored and its
\* history with the timestamps ascending, the oldest entry first.
GetHistoryAscending ==
    \A s \in Slots :
       (Answered(s, "get") /\ reqs[s].code = 200)
       => /\ reqs[s].body.trackingId = reqs[s].id
          /\ \A i \in 1..Len(reqs[s].body.history) - 1 :
                reqs[s].body.history[i].timestamp
                   <= reqs[s].body.history[i + 1].timestamp

\* C26: as long as no store statement has been rejected, the lastStatus of a Get's
\* 200 response is the status of an entry with the greatest timestamp of the
\* history in that response (and no status if that history is empty).
GetNeverSeesSplit ==
    failures = 0
    => \A s \in Slots :
          (Answered(s, "get") /\ reqs[s].code = 200)
          => LET h == reqs[s].body.history
             IN IF h = <<>>
                THEN reqs[s].body.lastStatus = NoStatus
                ELSE \E i \in 1..Len(h) :
                        /\ \A j \in 1..Len(h) : h[j].timestamp <= h[i].timestamp
                        /\ reqs[s].body.lastStatus = h[i].status

\* two Adds of one identifier that validates are answered, each having arrived
\* when the identifier had no record (so the second arrived before the first had
\* inserted it), no other request was made and no statement was rejected
OverlappingAddsAnswered(s, t) ==
    /\ s # t
    /\ Answered(s, "add") /\ Answered(t, "add")
    /\ reqs[s].id = reqs[t].id /\ RoyalMailPattern(reqs[s].id)
    /\ ~reqs[s].pre.exists /\ ~reqs[t].pre.exists
    /\ requested = 2 /\ failures = 0

\* C27: the store never holds two records of one identifier; of two overlapping
\* Adds of an identifier exactly one answers 201, the other 409 or 500, and
\* afterwards the identifier has its record and a history of exactly one entry,
\* the one written by the Add that answered 201.
OneRecordPerId ==
    /\ \A r1 \in tracking : \A r2 \in tracking :
          r1.tracking_id = r2.tracking_id => r1 = r2
    /\ \A s \in Slots : \A t \in Slots :
          (OverlappingAddsAnswered(s, t) /\ reqs[s].code <= reqs[t].code)
          => /\ reqs[s].code = 201 /\ reqs[t].code \in {409, 500}
             /\ Exists(reqs[s].id)
             /\ RowOf(reqs[s].id).started_at = reqs[s].now
             /\ HistoryOf(reqs[s].id) =
                   <<HistoryRow(reqs[s].id, reqs[s].body.status, reqs[s].now)>>

\* two overlapping Adds have both passed the SELECT: one answered 201, the other
\* was stopped by the UNIQUE constraint
SecondAddStoppedByUnique ==
    \E s \in Slots : \E t \in Slots :
       /\ OverlappingAddsAnswered(s, t)
       /\ reqs[s].code = 201 /\ reqs[t].code = 500

\* C28: the step in which a Get, a Check or a Delete finds that its identifier has
\* no record answers 404 (unless the statement is rejected) and leaves both tables
\* as they are; the page leaves its data, its session, its interval and its
\* notifications as they are when it takes a Check's 404.
UnknownIdIsNotFound ==
    [][\A s \in Slots :
          /\ (/\ reqs[s].pc \in {"get_select", "chk_select", "del_delete"}
              /\ ~Exists(reqs[s].id) /\ Stepped(s))
             => /\ reqs'[s].pc = "done"
                /\ reqs'[s].code = 404 \/ failures' > failures
                /\ UNCHANGED <<tracking, tracking_history>>
          /\ (/\ reqs[s].pc = "done" /\ reqs[s].owner.who = "page"
              /\ reqs[s].owner.cont = "check" /\ reqs[s].code = 404
              /\ Stepped(s))
             => UNCHANGED <<trackingData, session, checkInterval, timers,
                            notifications, view>>]_vars

\* C29: no step changes the started_at of a record that stays in the store, and a
\* record enters the store only by the INSERT of an Add, with that Add's timestamp
\* as its started_at.
StartedAtIsFixed ==
    [][/\ \A r \in tracking : \A q \in tracking' :
             q.tracking_id = r.tracking_id => q.started_at = r.started_at
       /\ \A q \in tracking' :
             ~Exists(q.tracking_id)
             => \E s \in Slots :
                   /\ reqs[s].op = "add" /\ reqs[s].pc = "add_insert" /\ Stepped(s)
                   /\ reqs[s].id = q.tracking_id
                   /\ q.started_at = reqs[s].now]_vars

\* a record added at one instant has been updated by a Check at a later one and
\* by a second Check after that
CheckedTwiceSinceStart ==
    \E r \in tracking :
       /\ r.last_checked > r.started_at
       /\ Len(HistoryOf(r.tracking_id)) >= 2
       /\ HistoryOf(r.tracking_id)[1].timestamp = r.started_at
       /\ \E i \in 1..Len(HistoryOf(r.tracking_id)) :
             /\ HistoryOf(r.tracking_id)[i].timestamp > r.started_at
             /\ HistoryOf(r.tracking_id)[i].timestamp < r.last_checked

\* C30: under a caller that waits for each response, as long as no statement has
\* been rejected, whenever no request is being handled the history of a record
\* is: first the entry of its Add, stamped started_at; then one entry for each
\* Check that found a change, each stamped later than the entry before it and
\* carrying a later stage, which the provider had reached by then (stages that
\* went by between two Checks have no entry); last_status is the status of the
\* last entry; and delivered is set exactly if that is the last stage, which then
\* is the final entry, later Checks leaving the record and its history as they are.
HistoryFollowsChecks ==
    (failures = 0 /\ \A s \in Slots : reqs[s].pc \in {"idle", "done"})
    => /\ \A r \in tracking :
             LET h == HistoryOf(r.tracking_id)
             IN /\ h # <<>>
                /\ h[1].timestamp = r.started_at
                /\ \A i \in 1..Len(h) - 1 :
                      /\ h[i].timestamp < h[i + 1].timestamp
                      /\ StageOf(h[i].status) < StageOf(h[i + 1].status)
                /\ \A i \in 1..Len(h) :
                      \E t \in h[i].timestamp + 1 .. clock :
                         /\ i < Len(h) => t <= h[i + 1].timestamp
                         /\ h[i].status =
                               fetchRoyalMailStatus(t - r.started_at).status
                /\ r.last_status = h[Len(h)].status
                /\ r.delivered <=> StageOf(r.last_status) = Len(Stages)
       /\ \A s \in Slots :
             (Answered(s, "check") /\ reqs[s].pre.exists /\ reqs[s].pre.row.delivered)
             => Stored(reqs[s].id) = reqs[s].pre

\* Add at minute 0, a Check within the second minute, a Check after the fourth:
\* three entries, the two stages in between without one, and a further Check
\* answered
ThreeEntriesTwoStagesSkipped ==
    \E s \in Slots :
       /\ Answered(s, "check") /\ reqs[s].code = 200
       /\ reqs[s].pre.exists /\ reqs[s].pre.row.delivered
       /\ failures = 0
       /\ LET h == HistoryOf(reqs[s].id)
          IN /\ Len(h) = 3
             /\ StageOf(h[1].status) = 1
             /\ StageOf(h[2].status) = 2
             /\ StageOf(h[3].status) = 5

\* C34: every interval alive is the one held in checkInterval, so at most one is.
OneTimerAlive ==
    /\ timers \subseteq {checkInterval}
    /\ Cardinality(timers) <= 1

\* a page reloaded after its Add holds the interval that init set, the one before
\* having died with the document closed
IntervalSetByInit ==
    /\ timers = {checkInterval}
    /\ session # <<>> /\ trackingData = SessionData
    /\ \E s \in Slots : reqs[s].owner = Page("init_load", NoBody)
    /\ \E r \in tracking : r.tracking_id = session[1]

\* C32: while an interval is scheduled the page tracks a record that it holds as
\* not delivered; so data held as delivered means that no interval is scheduled.
TimerOnlyWhileUndelivered ==
    timers # {} => trackingData # <<>> /\ ~trackingData[1].delivered

\* C33: when the page has processed a successful Check response (at once if it
\* reports no change, after the reload if it reports one), the lastStatus and the
\* delivered flag it holds are those of the record in the store.
CacheEqualsStore ==
    [][\A s \in Slots :
          (/\ reqs[s].pc = "done" /\ reqs[s].owner.who = "page"
           /\ trackingData # <<>>
           /\ \/ /\ reqs[s].owner.cont = "check" /\ Ok(reqs[s].code)
                 /\ ~reqs[s].body.statusChanged
              \/ reqs[s].owner.cont = "check_load"
           /\ reqs'[s] = IdleReq)
          => /\ trackingData' # <<>>
             /\ \E r \in tracking' :
                   /\ r.tracking_id = trackingData'[1].trackingId
                   /\ r.last_status = trackingData'[1].lastStatus
                   /\ r.delivered = trackingData'[1].delivered]_vars

\* the record of an identifier is as an Add left it for which the provider reported
\* delivered: delivered, with the one history entry of its creation
CreatedDelivered(id) ==
    /\ Exists(id) /\ RowOf(id).delivered
    /\ Len(HistoryOf(id)) = 1
    /\ HistoryOf(id)[1].timestamp = RowOf(id).started_at

\* C31: an Add for which the provider reports delivered answers with the record
\* delivered and exactly one history entry; while a record is as such an Add left
\* it no Check request is sent for it, and no step of a Check changes the store.
DeliveredAtAddNeverChecked ==
    [][\A s \in Slots :
          /\ (/\ reqs[s].pc = "add_update" /\ reqs[s].st.delivered
              /\ Stepped(s) /\ reqs'[s].code = 201)
             => /\ \E r \in tracking' : r.tracking_id = reqs[s].id /\ r.delivered
                /\ Len(SelectSeq(tracking_history',
                                 LAMBDA h : h.tracking_id = reqs[s].id)) = 1
          /\ (reqs'[s].pc = "chk_select" /\ Stepped(s))
             => ~CreatedDelivered(reqs'[s].id)
          /\ (/\ reqs[s].op = "check" /\ reqs[s].pc \notin {"idle", "done"}
              /\ CreatedDelivered(reqs[s].id) /\ Stepped(s))
             => tracking' = tracking /\ tracking_history' = tracking_history]_vars

\* C35: identifiers that differ in letter case or surrounding white space only are
\* one identifier to every operation: a record is stored under the trimmed
\* upper-case form, an Add for an identifier whose record exists creates nothing,
\* and the identifier a Get, a Check or a Delete acts on is the trimmed upper-case
\* form of the identifier it was made for.
VariantsAddressOneRecord ==
    /\ \A r \in tracking : r.tracking_id \in CleanIds
    /\ \A s \in Slots :
          /\ (Answered(s, "add") /\ reqs[s].pre.exists) => reqs[s].code # 201
          /\ reqs[s].op \in {"get", "check", "delete"} => reqs[s].id \in CleanIds

\* the record of an identifier was set delivered by a Check, and no Check is with
\* the Worker or waits for the page to take its response
DeliveredByCheck(id) ==
    /\ Exists(id) /\ RowOf(id).delivered
    /\ Len(HistoryOf(id)) >= 2
    /\ \A t \in Slots : reqs[t].op = "check" => reqs[t].pc = "idle"

\* C17: the UPDATE of a Check that found a change and delivered sets the record's
\* delivered flag, the page's checkTrackingStatus leaves no interval when it
\* completes for such a response, and no Check request is sent afterwards for the
\* record.
DeliveredNeverCheckedAgain ==
    [][\A s \in Slots :
          /\ (/\ reqs[s].pc = "chk_update" /\ reqs[s].st.delivered
              /\ Stepped(s) /\ reqs'[s].code = 200)
             => \A r \in tracking' : r.tracking_id = reqs[s].id => r.delivered
          /\ (/\ reqs[s].pc = "done" /\ reqs[s].owner.who = "page"
              /\ reqs[s].owner.cont = "check_load"
              /\ reqs[s].owner.data.delivered /\ reqs'[s] = IdleReq)
             => timers' = {} /\ checkInterval' = NoTimer
          /\ (reqs'[s].pc = "chk_select" /\ Stepped(s))
             => ~DeliveredByCheck(reqs'[s].id)]_vars

====
